---- MODULE Spec2Model ----
(***************************************************************************)
(* The three one-shot patch scripts of HabitFlowAI:                        *)
(*   clean_habit_modal.py, clean_tracker_grid.py, fix_tracker_grid.py.     *)
(*                                                                         *)
(* A text is a sequence of tokens.  A token is either one character that   *)
(* the scripts' patterns look at ("\n", " ", "}", ";"), one literal of a   *)
(* script taken whole (a marker, the head of a regular expression), or     *)
(* "x", any other character.  A literal that ends with a character some    *)
(* pattern looks at is split there (the markers of clean_habit_modal end   *)
(* with "}", the literal of its third pattern starts with "}"), so that    *)
(* every pattern of the scripts sees the same text as in the source.       *)
(* Offsets count tokens.                                                   *)
(***************************************************************************)
EXTENDS Integers, Sequences, FiniteSets, TLC

VARIABLES
    script,           \* which script this process runs
    pc,               \* position in the script
    run,              \* how many times the script was started on the file
    file,             \* the target file on disk
    file_before,      \* the target file when the current run started
    content,          \* clean_*: the buffer
    prev,             \* the buffer before the last statement that assigned it
    start_idx,        \* clean_habit_modal
    end_idx,          \* clean_habit_modal
    s_idx,            \* clean_tracker_grid
    e_idx,            \* clean_tracker_grid
    start_log,        \* clean_tracker_grid
    lines,            \* clean_tracker_grid: content.split; fix_tracker_grid: readlines
    new_lines,        \* clean_tracker_grid
    skip,             \* clean_tracker_grid
    li,               \* clean_tracker_grid: number of lines the for loop has consumed
    original_content, \* clean_tracker_grid
    cutoff_index,     \* fix_tracker_grid
    content_top,      \* fix_tracker_grid
    stdout,           \* the messages printed by the current run
    writes,           \* how many times the current run wrote the target file
    exit_code         \* -1 while running, then the exit status

vars == <<script, pc, run, file, file_before, content, prev, start_idx, end_idx,
          s_idx, e_idx, start_log, lines, new_lines, skip, li, original_content,
          cutoff_index, content_top, stdout, writes, exit_code>>

(***************************************************************************)
(* Bounds of the model.                                                    *)
(***************************************************************************)
MaxChunks == 3
MaxWs == 6
MaxRuns == 2
MaxTail == 2

(***************************************************************************)
(* Tokens.                                                                 *)
(***************************************************************************)
NL == "\n"
SP == " "
RB == "}"
SC == ";"
X == "x"
WS == {NL, SP}

(***************************************************************************)
(* Python's sequence primitives.                                           *)
(***************************************************************************)
Min(S) == CHOOSE m \in S : \A n \in S : m <= n
Max(S) == CHOOSE m \in S : \A n \in S : m >= n

\* s[:k]
PySliceTo(s, k) ==
    IF k >= 0
    THEN SubSeq(s, 1, IF k < Len(s) THEN k ELSE Len(s))
    ELSE SubSeq(s, 1, Len(s) + k)

\* s[k:]
PySliceFrom(s, k) ==
    IF k >= 0
    THEN SubSeq(s, k + 1, Len(s))
    ELSE SubSeq(s, (IF Len(s) + k > 0 THEN Len(s) + k ELSE 0) + 1, Len(s))

\* s.find(sub): the 0-based offset of the first occurrence, or -1
Find(s, sub) ==
    LET hits == {i \in 0..(Len(s) - Len(sub)) : SubSeq(s, i + 1, i + Len(sub)) = sub}
    IN  IF hits = {} THEN -1 ELSE Min(hits)

\* sub in s
In(sub, s) == Find(s, sub) # -1

\* The scan of re.sub and of str.replace: left to right, the leftmost match
\* at or after the current position is replaced and the scan goes on behind
\* it.  ends[i] is the last position of the match that starts at i, or 0.
RECURSIVE SubFrom(_, _, _, _)
SubFrom(s, ends, repl, i) ==
    IF i > Len(s) THEN << >>
    ELSE IF ends[i] >= i THEN repl \o SubFrom(s, ends, repl, ends[i] + 1)
    ELSE <<s[i]>> \o SubFrom(s, ends, repl, i + 1)

\* The ends of the occurrences of a literal.
LiteralEnds(s, old) ==
    [i \in 1..Len(s) |->
        IF i + Len(old) - 1 <= Len(s) /\ SubSeq(s, i, i + Len(old) - 1) = old
        THEN i + Len(old) - 1 ELSE 0]

\* s.replace(old, new)
PyReplace(s, old, new) == SubFrom(s, LiteralEnds(s, old), new, 1)

At(s, i) == IF i >= 1 /\ i <= Len(s) THEN s[i] ELSE "<eof>"

(***************************************************************************)
(* clean_habit_modal.py                                                    *)
(***************************************************************************)
TOGGLE == "const toggleAssignedDay = (dayIndex: number) => {"
DAYS == "const daysOfWeek = ['S', 'M', 'T', 'W', 'T', 'F', 'S'];"
ELSEIF == " else if (frequency === 'weekly' && goalType === 'boolean' && assignedDays.length > 0) {"
DAILY == "assignedDays: frequency === 'daily' ? assignedDays : undefined,"
WEEKLY == "assignedDays: frequency === 'weekly' ? assignedDays : undefined,"
UNDEF == "assignedDays: undefined,"
START3 == "{/* 3. Specific Configuration based on Weekly/Type (Only if Regular or Weekly Bundle) */"
END4 == "{/* 4. Configuration for Daily/Total (Legacy support mostly) */"

modal_start_marker == <<START3, RB>>
modal_end_marker == <<END4, RB>>

\* r'const toggleAssignedDay = \(dayIndex: number\) => \{[^}]+\};' : the
\* greedy [^}]+ takes the longest body that "};" follows.
ToggleEnds(s) ==
    [i \in 1..Len(s) |->
        IF s[i] # TOGGLE THEN 0
        ELSE LET K == {k \in 1..Len(s) :
                        /\ \A j \in (i + 1)..(i + k) : At(s, j) \notin {RB, "<eof>"}
                        /\ At(s, i + k + 1) = RB
                        /\ At(s, i + k + 2) = SC}
             IN  IF K = {} THEN 0 ELSE i + Max(K) + 2]

\* r'\} else if \(...\) \{[^\}]+\}'
ElseIfEnds(s) ==
    [i \in 1..Len(s) |->
        IF ~(s[i] = RB /\ At(s, i + 1) = ELSEIF) THEN 0
        ELSE LET K == {k \in 1..Len(s) :
                        /\ \A j \in (i + 2)..(i + 1 + k) : At(s, j) \notin {RB, "<eof>"}
                        /\ At(s, i + k + 2) = RB}
             IN  IF K = {} THEN 0 ELSE i + Max(K) + 2]

\* Steps 1 to 4: the three re.sub deletions and the two payload replacements.
ModalPasses(s) ==
    LET c1 == SubFrom(s, ToggleEnds(s), << >>, 1)
        c2 == PyReplace(c1, <<DAYS>>, << >>)
        c3 == SubFrom(c2, ElseIfEnds(c2), << >>, 1)
        c4 == PyReplace(c3, <<DAILY>>, <<UNDEF>>)
    IN  PyReplace(c4, <<WEEKLY>>, <<UNDEF>>)

\* content[:start_idx] + content[end_idx:]
MarkerCut(s, si, ei) == PySliceTo(s, si) \o PySliceFrom(s, ei)

\* r'\n\s*\n\s*\n' : both \s* are greedy, the first one first.
BlankEnds(s) ==
    [i \in 1..Len(s) |->
        IF s[i] # NL THEN 0
        ELSE LET Fits(a, b) ==
                    /\ \A j \in (i + 1)..(i + a) : At(s, j) \in WS
                    /\ At(s, i + a + 1) = NL
                    /\ \A j \in (i + a + 2)..(i + a + 1 + b) : At(s, j) \in WS
                    /\ At(s, i + a + b + 2) = NL
                 A == {a \in 0..Len(s) : \E b \in 0..Len(s) : Fits(a, b)}
             IN  IF A = {} THEN 0
                 ELSE LET a == Max(A)
                          b == Max({bb \in 0..Len(s) : Fits(a, bb)})
                      IN  i + a + b + 2]

\* Normalize with '\n' as the replacement.
NormalizeToOneNewline(s) == SubFrom(s, BlankEnds(s), <<NL>>, 1)

\* re.sub(r'\n\s*\n\s*\n', '\n\n', content)
Normalize(s) == SubFrom(s, BlankEnds(s), <<NL, NL>>, 1)

MSG_MODAL_MISSING == "Could not find Old Weekly Config Block markers"
MSG_MODAL_DONE == "Successfully cleaned AddHabitModal.tsx"

ModalRead ==
    /\ script = "clean_habit_modal" /\ pc = "read"
    /\ content' = file
    /\ prev' = file
    /\ file_before' = file
    /\ pc' = "m_passes"
    /\ UNCHANGED <<script, run, file, start_idx, end_idx, s_idx, e_idx, start_log,
                   lines, new_lines, skip, li, original_content, cutoff_index,
                   content_top, stdout, writes, exit_code>>

ModalRegexPasses ==
    /\ script = "clean_habit_modal" /\ pc = "m_passes"
    /\ content' = ModalPasses(content)
    /\ prev' = content
    /\ pc' = "m_find"
    /\ UNCHANGED <<script, run, file, file_before, start_idx, end_idx, s_idx, e_idx,
                   start_log, lines, new_lines, skip, li, original_content,
                   cutoff_index, content_top, stdout, writes, exit_code>>

ModalFindMarkers ==
    /\ script = "clean_habit_modal" /\ pc = "m_find"
    /\ start_idx' = Find(content, modal_start_marker)
    /\ end_idx' = Find(content, modal_end_marker)
    /\ pc' = "m_cut"
    /\ UNCHANGED <<script, run, file, file_before, content, prev, s_idx, e_idx,
                   start_log, lines, new_lines, skip, li, original_content,
                   cutoff_index, content_top, stdout, writes, exit_code>>

ModalCut ==
    /\ script = "clean_habit_modal" /\ pc = "m_cut"
    /\ IF start_idx # -1 /\ end_idx # -1
       THEN /\ content' = MarkerCut(content, start_idx, end_idx)
            /\ stdout' = stdout
       ELSE /\ content' = content
            /\ stdout' = Append(stdout, MSG_MODAL_MISSING)
    /\ prev' = content
    /\ pc' = "m_normalize"
    /\ UNCHANGED <<script, run, file, file_before, start_idx, end_idx, s_idx, e_idx,
                   start_log, lines, new_lines, skip, li, original_content,
                   cutoff_index, content_top, writes, exit_code>>

ModalNormalize ==
    /\ script = "clean_habit_modal" /\ pc = "m_normalize"
    /\ content' = Normalize(content)
    /\ prev' = content
    /\ pc' = "m_write"
    /\ UNCHANGED <<script, run, file, file_before, start_idx, end_idx, s_idx, e_idx,
                   start_log, lines, new_lines, skip, li, original_content,
                   cutoff_index, content_top, stdout, writes, exit_code>>

ModalWrite ==
    /\ script = "clean_habit_modal" /\ pc = "m_write"
    /\ file' = content
    /\ writes' = writes + 1
    /\ stdout' = Append(stdout, MSG_MODAL_DONE)
    /\ exit_code' = 0
    /\ pc' = "done"
    /\ UNCHANGED <<script, run, file_before, content, prev, start_idx, end_idx,
                   s_idx, e_idx, start_log, lines, new_lines, skip, li,
                   original_content, cutoff_index, content_top>>

(***************************************************************************)
(* clean_tracker_grid.py                                                   *)
(***************************************************************************)
ROWCONTENT == "const WeeklyHabitRowContent = ({"
SORTABLE == "// SortableWeeklyHabitRow removed/commented out"
CHOICELOG == "const handleOpenChoiceLog ="

grid_start_marker == <<ROWCONTENT>>
grid_end_marker == <<SORTABLE>>

\* r'const WeeklyHabitRowContent = \(\{[^;]+?\n\};' : the lazy [^;]+? takes
\* the shortest body that "\n};" follows.
RowContentEnds(s) ==
    [i \in 1..Len(s) |->
        IF s[i] # ROWCONTENT THEN 0
        ELSE LET K == {k \in 1..Len(s) :
                        /\ \A j \in (i + 1)..(i + k) : At(s, j) \notin {SC, "<eof>"}
                        /\ At(s, i + k + 1) = NL
                        /\ At(s, i + k + 2) = RB
                        /\ At(s, i + k + 3) = SC}
             IN  IF K = {} THEN 0 ELSE i + Min(K) + 3]

\* r'const handleOpenChoiceLog = [^;]+?\n\s*\};' : lazy body, greedy \s*.
ChoiceLogEnds(s) ==
    [i \in 1..Len(s) |->
        IF ~(s[i] = CHOICELOG /\ At(s, i + 1) = SP) THEN 0
        ELSE LET Fits(k, w) ==
                    /\ \A j \in (i + 2)..(i + 1 + k) : At(s, j) \notin {SC, "<eof>"}
                    /\ At(s, i + k + 2) = NL
                    /\ \A j \in (i + k + 3)..(i + k + 2 + w) : At(s, j) \in WS
                    /\ At(s, i + k + w + 3) = RB
                    /\ At(s, i + k + w + 4) = SC
                 K == {k \in 1..Len(s) : \E w \in 0..Len(s) : Fits(k, w)}
             IN  IF K = {} THEN 0
                 ELSE LET k == Min(K)
                          w == Max({ww \in 0..Len(s) : Fits(k, ww)})
                      IN  i + k + w + 4]

\* The two re.sub deletions of steps 1 and 2.
GridPasses(s) ==
    LET c1 == SubFrom(s, RowContentEnds(s), << >>, 1)
    IN  SubFrom(c1, ChoiceLogEnds(c1), << >>, 1)

\* content.split('\n')
RECURSIVE Split(_)
Split(s) ==
    LET nl == {i \in 1..Len(s) : s[i] = NL}
    IN  IF nl = {} THEN <<s>>
        ELSE <<SubSeq(s, 1, Min(nl) - 1)>> \o Split(SubSeq(s, Min(nl) + 1, Len(s)))

\* line.strip()
Strip(line) ==
    LET ink == {i \in 1..Len(line) : line[i] \notin WS}
    IN  IF ink = {} THEN << >> ELSE SubSeq(line, Min(ink), Max(ink))

\* ScanLine with the copy decided before the closing comment is looked at.
ScanLineCopyFirst(sk, out, line) ==
    LET sk1 == IF In(<<ROWCONTENT>>, line) THEN TRUE ELSE sk
        out1 == IF ~sk1 /\ ~In(<<CHOICELOG>>, line) THEN Append(out, line) ELSE out
        sk2 == IF In(<<SORTABLE>>, line) /\ sk1 THEN FALSE ELSE sk1
        sk3 == IF In(<<CHOICELOG>>, line) THEN TRUE ELSE sk2
        sk4 == IF sk3 /\ Strip(line) = <<RB, SC>> THEN FALSE ELSE sk3
    IN  [skip |-> sk4, new_lines |-> out1]

\* One pass of the body of the for loop: the flag and the output after line.
ScanLine(sk, out, line) ==
    LET sk1 == IF In(<<ROWCONTENT>>, line) THEN TRUE ELSE sk
        sk2 == IF In(<<SORTABLE>>, line) /\ sk1 THEN FALSE ELSE sk1
        sk3 == IF In(<<CHOICELOG>>, line) THEN TRUE ELSE sk2
        out1 == IF ~sk3 THEN Append(out, line) ELSE out
        sk4 == IF sk3 /\ Strip(line) = <<RB, SC>> THEN FALSE ELSE sk3
    IN  [skip |-> sk4, new_lines |-> out1]

\* "".join(l + '\n' for l in lines)
RECURSIVE JoinNewline(_)
JoinNewline(ls) ==
    IF ls = << >> THEN << >> ELSE Head(ls) \o <<NL>> \o JoinNewline(Tail(ls))

MSG_GRID_MISSING == "Could not find WeeklyHabitRowContent markers"
MSG_GRID_REMOVED == "Removed WeeklyHabitRowContent"
MSG_GRID_NOT_FOUND == "Markers not found for WeeklyHabitRowContent"

GridRead ==
    /\ script = "clean_tracker_grid" /\ pc = "read"
    /\ content' = file
    /\ prev' = file
    /\ file_before' = file
    /\ pc' = "g_passes"
    /\ UNCHANGED <<script, run, file, start_idx, end_idx, s_idx, e_idx,
                   start_log, lines, new_lines, skip, li, original_content,
                   cutoff_index, content_top, stdout, writes, exit_code>>

GridRegexPasses ==
    /\ script = "clean_tracker_grid" /\ pc = "g_passes"
    /\ content' = GridPasses(content)
    /\ prev' = content
    /\ pc' = "g_find"
    /\ UNCHANGED <<script, run, file, file_before, start_idx, end_idx,
                   s_idx, e_idx, start_log, lines, new_lines, skip, li,
                   original_content, cutoff_index, content_top, stdout,
                   writes, exit_code>>

GridFindMarkers ==
    /\ script = "clean_tracker_grid" /\ pc = "g_find"
    /\ s_idx' = Find(content, grid_start_marker)
    /\ e_idx' = Find(content, grid_end_marker)
    /\ pc' = "g_cut"
    /\ UNCHANGED <<script, run, file, file_before, content, prev, start_idx,
                   end_idx, start_log, lines, new_lines, skip, li,
                   original_content, cutoff_index, content_top, stdout,
                   writes, exit_code>>

GridCut ==
    /\ script = "clean_tracker_grid" /\ pc = "g_cut"
    /\ IF s_idx # -1 /\ e_idx # -1
       THEN /\ content' = MarkerCut(content, s_idx, e_idx)
            /\ stdout' = stdout
       ELSE /\ content' = content
            /\ stdout' = Append(stdout, MSG_GRID_MISSING)
    /\ prev' = content
    /\ pc' = "g_choice"
    /\ UNCHANGED <<script, run, file, file_before, start_idx, end_idx,
                   s_idx, e_idx, start_log, lines, new_lines, skip, li,
                   original_content, cutoff_index, content_top, writes,
                   exit_code>>

GridChoiceLog ==
    /\ script = "clean_tracker_grid" /\ pc = "g_choice"
    /\ start_log' = IF In(<<CHOICELOG>>, content)
                    THEN Find(content, <<CHOICELOG>>) ELSE start_log
    /\ pc' = "g_split"
    /\ UNCHANGED <<script, run, file, file_before, content, prev, start_idx,
                   end_idx, s_idx, e_idx, lines, new_lines, skip, li,
                   original_content, cutoff_index, content_top, stdout,
                   writes, exit_code>>

GridSplit ==
    /\ script = "clean_tracker_grid" /\ pc = "g_split"
    /\ lines' = Split(content)
    /\ new_lines' = << >>
    /\ skip' = FALSE
    /\ li' = 0
    /\ pc' = "g_scan"
    /\ UNCHANGED <<script, run, file, file_before, content, prev, start_idx,
                   end_idx, s_idx, e_idx, start_log, original_content,
                   cutoff_index, content_top, stdout, writes, exit_code>>

GridScanLine ==
    /\ script = "clean_tracker_grid" /\ pc = "g_scan"
    /\ li < Len(lines)
    /\ LET r == ScanLine(skip, new_lines, lines[li + 1])
       IN  /\ skip' = r.skip
           /\ new_lines' = r.new_lines
    /\ li' = li + 1
    /\ UNCHANGED <<script, pc, run, file, file_before, content, prev,
                   start_idx, end_idx, s_idx, e_idx, start_log, lines,
                   original_content, cutoff_index, content_top, stdout,
                   writes, exit_code>>

GridJoin ==
    /\ script = "clean_tracker_grid" /\ pc = "g_scan"
    /\ li = Len(lines)
    /\ content' = JoinNewline(lines)
    /\ prev' = content
    /\ pc' = "g_reread"
    /\ UNCHANGED <<script, run, file, file_before, start_idx, end_idx,
                   s_idx, e_idx, start_log, lines, new_lines, skip, li,
                   original_content, cutoff_index, content_top, stdout,
                   writes, exit_code>>

GridReread ==
    /\ script = "clean_tracker_grid" /\ pc = "g_reread"
    /\ original_content' = file
    /\ s_idx' = Find(file, grid_start_marker)
    /\ e_idx' = Find(file, grid_end_marker)
    /\ pc' = "g_final"
    /\ UNCHANGED <<script, run, file, file_before, content, prev, start_idx,
                   end_idx, start_log, lines, new_lines, skip, li,
                   cutoff_index, content_top, stdout, writes, exit_code>>

GridFinalCut ==
    /\ script = "clean_tracker_grid" /\ pc = "g_final"
    /\ IF s_idx # -1 /\ e_idx # -1
       THEN /\ original_content' = MarkerCut(original_content, s_idx, e_idx)
            /\ file' = original_content'
            /\ writes' = writes + 1
            /\ stdout' = Append(stdout, MSG_GRID_REMOVED)
       ELSE /\ original_content' = original_content
            /\ file' = file
            /\ writes' = writes
            /\ stdout' = Append(stdout, MSG_GRID_NOT_FOUND)
    /\ exit_code' = 0
    /\ pc' = "done"
    /\ UNCHANGED <<script, run, file_before, content, prev, start_idx,
                   end_idx, s_idx, e_idx, start_log, lines, new_lines, skip,
                   li, cutoff_index, content_top>>

(***************************************************************************)
(* fix_tracker_grid.py                                                     *)
(***************************************************************************)
SECTION_SP == "{/* Weekly Habits Section - Redesigned as Cards */ }"
SECTION == "{/* Weekly Habits Section - Redesigned as Cards */}"
HEUR == "weeklyHabits.length > 0"
FallbackAfter == 1200

\* f.readlines(): every line keeps its "\n"; the last one may have none.
RECURSIVE ReadLinesOf(_, _, _)
ReadLinesOf(s, lo, hi) ==
    IF lo > hi THEN << >>
    ELSE IF lo = hi THEN << <<s[lo]>> >>
    ELSE LET mid == (lo + hi) \div 2
             L == ReadLinesOf(s, lo, mid)
             R == ReadLinesOf(s, mid + 1, hi)
             last == L[Len(L)]
         IN  IF last[Len(last)] = NL THEN L \o R
             ELSE SubSeq(L, 1, Len(L) - 1) \o <<last \o R[1]>> \o Tail(R)

ReadLines(s) == ReadLinesOf(s, 1, Len(s))

\* "".join(ls)
RECURSIVE JoinOf(_, _, _)
JoinOf(ls, lo, hi) ==
    IF lo > hi THEN << >>
    ELSE IF lo = hi THEN ls[lo]
    ELSE LET mid == (lo + hi) \div 2
         IN  JoinOf(ls, lo, mid) \o JoinOf(ls, mid + 1, hi)

Join(ls) == JoinOf(ls, 1, Len(ls))

\* The first loop: the 0-based index of the first line that holds either
\* spelling of the section comment, or -1.
FindSection(ls) ==
    LET hits == {i \in 0..(Len(ls) - 1) :
                    In(<<SECTION_SP>>, ls[i + 1]) \/ In(<<SECTION>>, ls[i + 1])}
    IN  IF hits = {} THEN -1 ELSE Min(hits)

\* The fallback loop: one line before the first line behind FallbackAfter
\* that holds the heuristic text, or -1.
FindFallback(ls) ==
    LET hits == {i \in 0..(Len(ls) - 1) :
                    In(<<HEUR>>, ls[i + 1]) /\ i > FallbackAfter}
    IN  IF hits = {} THEN -1 ELSE Min(hits) - 1

\* ContentTop without the line of the cutoff index.
ContentTopExclusive(ls, cut) == PySliceTo(ls, cut)

\* lines[:cutoff_index+1]
ContentTop(ls, cut) == PySliceTo(ls, cut + 1)

\* The text of new_bottom, line by line: an empty first line, the line of
\* the heuristic text, then the rest of the component.
NewBottomLines ==
    [k \in 1..88 |->
        IF k \in {1, 10, 33, 62, 69, 87} THEN <<NL>>
        ELSE IF k = 2 THEN <<X, HEUR, X, NL>>
        ELSE <<X, NL>>]

new_bottom == Join(NewBottomLines)

MSG_FIX_NO_CUTOFF == "Could not find cutoff point"
MSG_FIX_REALLY == "Really could not find cutoff"
\* The message ends with the length of the text written, which is left out.
MSG_FIX_DONE == "Successfully rewrote TrackerGrid.tsx"

FixRead ==
    /\ script = "fix_tracker_grid" /\ pc = "read"
    /\ lines' = ReadLines(file)
    /\ file_before' = file
    /\ pc' = "f_section"
    /\ UNCHANGED <<script, run, file, content, prev, start_idx, end_idx,
                   s_idx, e_idx, start_log, new_lines, skip, li,
                   original_content, cutoff_index, content_top, stdout,
                   writes, exit_code>>

FixFindSection ==
    /\ script = "fix_tracker_grid" /\ pc = "f_section"
    /\ cutoff_index' = FindSection(lines)
    /\ pc' = IF cutoff_index' = -1 THEN "f_fallback" ELSE "f_top"
    /\ UNCHANGED <<script, run, file, file_before, content, prev, start_idx,
                   end_idx, s_idx, e_idx, start_log, lines, new_lines, skip,
                   li, original_content, content_top, stdout, writes,
                   exit_code>>

FixFallback ==
    /\ script = "fix_tracker_grid" /\ pc = "f_fallback"
    /\ cutoff_index' = FindFallback(lines)
    /\ IF cutoff_index' = -1
       THEN /\ stdout' = stdout \o <<MSG_FIX_NO_CUTOFF, MSG_FIX_REALLY>>
            /\ exit_code' = 1
            /\ pc' = "done"
       ELSE /\ stdout' = Append(stdout, MSG_FIX_NO_CUTOFF)
            /\ exit_code' = exit_code
            /\ pc' = "f_top"
    /\ UNCHANGED <<script, run, file, file_before, content, prev, start_idx,
                   end_idx, s_idx, e_idx, start_log, lines, new_lines, skip,
                   li, original_content, content_top, writes>>

FixContentTop ==
    /\ script = "fix_tracker_grid" /\ pc = "f_top"
    /\ content_top' = ContentTop(lines, cutoff_index)
    /\ pc' = "f_write"
    /\ UNCHANGED <<script, run, file, file_before, content, prev, start_idx,
                   end_idx, s_idx, e_idx, start_log, lines, new_lines, skip,
                   li, original_content, cutoff_index, stdout, writes,
                   exit_code>>

FixWrite ==
    /\ script = "fix_tracker_grid" /\ pc = "f_write"
    /\ file' = Join(content_top) \o new_bottom
    /\ writes' = writes + 1
    /\ stdout' = Append(stdout, MSG_FIX_DONE)
    /\ exit_code' = 0
    /\ pc' = "done"
    /\ UNCHANGED <<script, run, file_before, content, prev, start_idx,
                   end_idx, s_idx, e_idx, start_log, lines, new_lines, skip,
                   li, original_content, cutoff_index, content_top>>

(***************************************************************************)
(* The files the scripts are started on.                                   *)
(***************************************************************************)
RECURSIVE ChunkFiles(_, _)
ChunkFiles(lib, n) ==
    IF n = 0 THEN {<< >>}
    ELSE LET shorter == ChunkFiles(lib, n - 1)
         IN  shorter \cup {f \o c : f \in shorter, c \in lib}

ModalChunks ==
    { <<X>>, <<NL>>, <<RB>>, <<SC>>,
      modal_start_marker, modal_end_marker,
      <<TOGGLE, X>>, <<DAYS>>, <<RB, ELSEIF, X>>, <<DAILY>>, <<WEEKLY>> }

WsFiles == ChunkFiles({<<X>>, <<SP>>, <<NL>>}, MaxWs)

ModalFiles == ChunkFiles(ModalChunks, MaxChunks) \cup WsFiles

GridChunks ==
    { <<X>>, <<NL>>, <<SP>>, <<SC>>, <<ROWCONTENT>>, <<SORTABLE>>,
      <<CHOICELOG, SP>>, <<NL, RB, SC>> }

GridFiles == ChunkFiles(GridChunks, MaxChunks)

FixLineChunks ==
    { <<SECTION_SP, NL>>, <<SECTION, NL>>, <<X, HEUR, X, NL>>, <<X, NL>> }

\* n lines of other text
Padding(n) == [i \in 1..(2 * n) |-> IF i % 2 = 1 THEN X ELSE NL]

\* The same file without the newline that ends its last line.
Unterminated(f) ==
    IF f # << >> /\ f[Len(f)] = NL THEN SubSeq(f, 1, Len(f) - 1) ELSE f

\* At most one line, then no padding or FallbackAfter lines of it, then at
\* most MaxTail lines; with and without the last newline.
FixFiles ==
    LET whole == {h \o Padding(n) \o t :
                    h \in ChunkFiles(FixLineChunks, 1),
                    n \in {0, FallbackAfter},
                    t \in ChunkFiles(FixLineChunks, MaxTail)}
    IN  whole \cup {Unterminated(f) : f \in whole}

InputFiles(sc) ==
    IF sc = "clean_habit_modal" THEN ModalFiles
    ELSE IF sc = "clean_tracker_grid" THEN GridFiles
    ELSE FixFiles

Scripts == {"clean_habit_modal", "clean_tracker_grid", "fix_tracker_grid"}

\* fix_tracker_grid is started again on the file it left.
FixRerun ==
    /\ script = "fix_tracker_grid" /\ pc = "done"
    /\ run < MaxRuns
    /\ run' = run + 1
    /\ pc' = "read"
    /\ stdout' = << >>
    /\ writes' = 0
    /\ exit_code' = -1
    /\ UNCHANGED <<script, file, file_before, content, prev, start_idx, end_idx,
                   s_idx, e_idx, start_log, lines, new_lines, skip, li,
                   original_content, cutoff_index, content_top>>

Init ==
    /\ script \in Scripts
    /\ file \in InputFiles(script)
    /\ file_before = file
    /\ pc = "read"
    /\ run = 1
    /\ content = << >>
    /\ prev = << >>
    /\ start_idx = -1
    /\ end_idx = -1
    /\ s_idx = -1
    /\ e_idx = -1
    /\ start_log = -1
    /\ lines = << >>
    /\ new_lines = << >>
    /\ skip = FALSE
    /\ li = 0
    /\ original_content = << >>
    /\ cutoff_index = -1
    /\ content_top = << >>
    /\ stdout = << >>
    /\ writes = 0
    /\ exit_code = -1

Next ==
    \/ ModalRead
    \/ ModalRegexPasses
    \/ ModalFindMarkers
    \/ ModalCut
    \/ ModalNormalize
    \/ ModalWrite
    \/ GridRead
    \/ GridRegexPasses
    \/ GridFindMarkers
    \/ GridCut
    \/ GridChoiceLog
    \/ GridSplit
    \/ GridScanLine
    \/ GridJoin
    \/ GridReread
    \/ GridFinalCut
    \/ FixRead
    \/ FixFindSection
    \/ FixFallback
    \/ FixContentTop
    \/ FixWrite
    \/ FixRerun

Spec == Init /\ [][Next]_vars

(***************************************************************************)
(* What the claims speak about.                                            *)
(***************************************************************************)
NotFoundMessages ==
    {MSG_MODAL_MISSING, MSG_GRID_MISSING, MSG_GRID_NOT_FOUND,
     MSG_FIX_NO_CUTOFF, MSG_FIX_REALLY}

Occurrences(s, sub) ==
    Cardinality({i \in 0..(Len(s) - Len(sub)) : SubSeq(s, i + 1, i + Len(sub)) = sub})

\* The marker-pair cuts the current state has just gone through: the buffer
\* before and after, the two markers and the offsets looked up for them.
CutsDone ==
    (IF script = "clean_habit_modal" /\ pc = "m_normalize"
     THEN {[before |-> prev, after |-> content, s |-> start_idx, e |-> end_idx,
            sm |-> modal_start_marker, em |-> modal_end_marker]}
     ELSE {})
    \cup
    (IF script = "clean_tracker_grid" /\ pc = "g_choice"
     THEN {[before |-> prev, after |-> content, s |-> s_idx, e |-> e_idx,
            sm |-> grid_start_marker, em |-> grid_end_marker]}
     ELSE {})
    \cup
    (IF script = "clean_tracker_grid" /\ pc = "done"
     THEN {[before |-> file_before, after |-> original_content,
            s |-> s_idx, e |-> e_idx,
            sm |-> grid_start_marker, em |-> grid_end_marker]}
     ELSE {})

Performed(c) == c.s # -1 /\ c.e # -1

\* C1: a run writes the target file only if none of its marker lookups
\* reported not-found.
C1_WriteOnlyWhenAllFound ==
    writes > 0 => \A i \in 1..Len(stdout) : stdout[i] \notin NotFoundMessages

\* C2: when a marker of a marker-pair deletion occurs twice or more in the
\* buffer, something is reported and the buffer is left as it was.
C2_AmbiguousMarkerKeepsBuffer ==
    \A c \in CutsDone :
        (Occurrences(c.before, c.sm) >= 2 \/ Occurrences(c.before, c.em) >= 2)
            => (c.after = c.before /\ stdout # << >>)

\* C3: when the line scan of clean_tracker_grid ends while skipping, the run
\* ends with an error status and the buffer behind the scan is the buffer
\* before it.
C3_UnterminatedSkipReported ==
    (script = "clean_tracker_grid" /\ pc = "done" /\ skip)
        => (exit_code # 0 /\ content = prev)

\* C4: a second run of fix_tracker_grid on the file the first run left
\* leaves the file as it is.
C4_SecondRunChangesNothing ==
    (script = "fix_tracker_grid" /\ run >= 2 /\ pc = "done") => file = file_before

\* C5: the last edit step of a run works on the buffer the steps before it
\* produced, not on the original file content.
C5_StepsThreadTheBuffer ==
    (script = "clean_tracker_grid" /\ pc = "g_final") => original_content = content

\* C6: a marker-pair deletion that is performed has
\* startOffset <= endOffset <= length(buffer) and never makes the buffer longer.
C6_SpanInsideBuffer ==
    \A c \in CutsDone :
        Performed(c) =>
            /\ c.s <= c.e
            /\ c.e <= Len(c.before)
            /\ Len(c.after) <= Len(c.before)

\* C7: a marker-pair deletion that is performed splits the buffer in the text
\* before the start marker, the removed text and the text from the end
\* marker on, and keeps the first and the last part, each once.
C7_CutKeepsOutside ==
    \A c \in CutsDone :
        Performed(c) =>
            LET head == PySliceTo(c.before, c.s)
                tail == PySliceFrom(c.before, c.e)
            IN  /\ c.before = head \o SubSeq(c.before, c.s + 1, c.e) \o tail
                /\ c.after = head \o tail

\* The scan takes its next line.
ScanTakes == script = "clean_tracker_grid" /\ pc = "g_scan" /\ li' = li + 1

\* C8 as stated: while skipping, a line that holds the closing comment or is
\* exactly "};" when stripped is not copied, and the scan copies again.
C8_EndLineConsumed ==
    [][(ScanTakes /\ skip /\
        (In(<<SORTABLE>>, lines[li + 1]) \/ Strip(lines[li + 1]) = <<RB, SC>>))
            => (new_lines' = new_lines /\ ~skip')]_vars

\* C8 as amended: while skipping, a line that is exactly "};" when stripped
\* is not copied and the scan copies again; a line that holds the closing
\* comment ends the skip and is itself copied, unless it also holds
\* "const handleOpenChoiceLog =", which keeps the scan skipping.
C8_EndLineOfSkip ==
    [][(ScanTakes /\ skip) =>
        LET line == lines[li + 1]
        IN  /\ Strip(line) = <<RB, SC>> => (new_lines' = new_lines /\ ~skip')
            /\ (In(<<SORTABLE>>, line) /\ ~In(<<CHOICELOG>>, line))
                   => (new_lines' = Append(new_lines, line) /\ ~skip')
            /\ (In(<<SORTABLE>>, line) /\ In(<<CHOICELOG>>, line))
                   => (new_lines' = new_lines /\ skip')]_vars

\* C8: the scan skipped from its first line on, and its second line, which
\* holds the closing comment, ended the skip and was copied.
C8_Witness ==
    /\ script = "clean_tracker_grid" /\ pc = "g_scan" /\ li = 2
    /\ In(<<CHOICELOG>>, lines[1])
    /\ In(<<SORTABLE>>, lines[2])
    /\ ~skip
    /\ new_lines = <<lines[2]>>

\* The lines of a text that hold nothing but whitespace.
Blank(line) == \A i \in 1..Len(line) : line[i] \in WS
HasThreeBlankLines(s) ==
    LET ls == Split(s)
    IN  \E i \in 1..(Len(ls) - 2) : Blank(ls[i]) /\ Blank(ls[i + 1]) /\ Blank(ls[i + 2])
NonBlankLines(s) == SelectSeq(Split(s), LAMBDA l : ~Blank(l))

\* C9 as stated: the pass leaves no run of three blank lines, leaves a buffer
\* without such a run as it is, and keeps the non-blank lines.
C9_ThreeBlankLines ==
    (script = "clean_habit_modal" /\ pc = "m_write") =>
        /\ ~HasThreeBlankLines(content)
        /\ ~HasThreeBlankLines(prev) => content = prev
        /\ NonBlankLines(content) = NonBlankLines(prev)

\* The stretch of whitespace around position i of s, and its newlines.
StretchOf(s, i) ==
    {j \in 1..Len(s) :
        \A k \in (IF j < i THEN j ELSE i)..(IF j < i THEN i ELSE j) : s[k] \in WS}
NewlinesOf(s, i) == {j \in StretchOf(s, i) : s[j] = NL}

\* The positions that lie strictly between the first and the last newline of
\* a stretch of whitespace that holds three or more newlines.
Squeezed(s) ==
    {i \in 1..Len(s) :
        /\ s[i] \in WS
        /\ Cardinality(NewlinesOf(s, i)) >= 3
        /\ Min(NewlinesOf(s, i)) < i
        /\ i < Max(NewlinesOf(s, i))}

\* s without the positions in gone
Without(s, gone) ==
    LET kept == (1..Len(s)) \ gone
    IN  [k \in 1..Cardinality(kept) |->
            s[CHOOSE i \in kept : Cardinality({j \in kept : j <= i}) = k]]

\* C9 as amended: the pass removes what lies strictly between the first and
\* the last newline of every stretch of whitespace that holds three or more
\* newlines, and nothing else.
C9_SqueezesStretches ==
    (script = "clean_habit_modal" /\ pc = "m_write") =>
        content = Without(prev, Squeezed(prev))

\* C9: the pass has shortened a buffer that starts and ends with text.
C9_Witness ==
    /\ script = "clean_habit_modal" /\ pc = "m_write"
    /\ Len(prev) >= 5 /\ prev[1] = X /\ prev[Len(prev)] = X
    /\ SP \in {prev[i] : i \in 1..Len(prev)}
    /\ Len(content) < Len(prev)

\* The 1-based numbers of the lines that hold the section comment, and of
\* the lines behind FallbackAfter that hold the heuristic text.
SectionLines ==
    {i \in 1..Len(lines) : In(<<SECTION_SP>>, lines[i]) \/ In(<<SECTION>>, lines[i])}
HeuristicLines ==
    {i \in 1..Len(lines) : In(<<HEUR>>, lines[i]) /\ i - 1 > FallbackAfter}
FixWrote == script = "fix_tracker_grid" /\ pc = "done" /\ writes > 0

\* C10 as stated: the file written is the lines before the anchor line and
\* the new tail, and the cutoff index is the index of a line.
C10_CutAtAnchor ==
    FixWrote =>
        LET anchor == IF SectionLines # {} THEN Min(SectionLines)
                      ELSE Min(HeuristicLines)
        IN  /\ file = Join(SubSeq(lines, 1, anchor - 1)) \o new_bottom
            /\ 0 <= cutoff_index /\ cutoff_index < Len(lines)

\* C10 as amended: when the section comment is found its line is kept and
\* the cut starts behind it; in the fallback the cut starts at the line of
\* the heuristic text; the lines before the cut are kept and the new tail
\* follows them; the cutoff index is the index of a line.
C10_CutBehindSection ==
    FixWrote =>
        LET first == IF SectionLines # {} THEN Min(SectionLines) + 1
                     ELSE Min(HeuristicLines)
        IN  /\ file = Join(SubSeq(lines, 1, first - 1)) \o new_bottom
            /\ 0 <= cutoff_index /\ cutoff_index < Len(lines)

\* C10: a file was written whose section comment is not on the first line.
C10_Witness ==
    /\ FixWrote
    /\ SectionLines # {}
    /\ Min(SectionLines) > 1
    /\ cutoff_index = Min(SectionLines) - 1

====
